---- MODULE Spec2Model ----
(***************************************************************************)
(* Reward / curation computations of bhive.comment.Comment                 *)
(* (src/bhive/comment.py).                                                 *)
(*                                                                         *)
(* Amounts are fixed-point: an integer number of 1/1000 units tagged with  *)
(* a symbol ("HBD", "HIVE", or "" for a plain Python number).  Times are   *)
(* integer seconds relative to the record's `created` timestamp.           *)
(***************************************************************************)
EXTENDS Integers, Sequences, FiniteSets, TLC

VARIABLES
    comment,    \* the Comment object (a dict): the content record held by the client
    chain,      \* the content the RPC node would return for this authorperm
    hive,       \* the Hive instance: hardfork, median history price, connection
    now,        \* wall clock (datetime.utcnow()), seconds
    pc,         \* position of the running call: "idle" or the method about to run
    frame,      \* the running (or last finished) top-level call: op, args, snapshot
    result,     \* what the last finished call returned or raised
    prev        \* result of the get_curation_penalty call made just before, if traced

vars == <<comment, chain, hive, now, pc, frame, result, prev>>

-----------------------------------------------------------------------------
(* Bounds of the model *)

MaxVotes == 2

(* Program constants *)

HIVE_REVERSE_AUCTION_WINDOW_SECONDS_HF6 == 300
HIVE_REVERSE_AUCTION_WINDOW_SECONDS_HF20 == 600
HIVE_REVERSE_AUCTION_WINDOW_SECONDS_HF21 == 900
PendingDays == 7
SecondsPerDay == 86400

\* Python's None and "key not in dict" are the empty tuple; a present value x is <<x>>
None == <<>>

Some(x) == <<x>>

Get(o) == o[1]

-----------------------------------------------------------------------------
(* Input sets *)

Voters == {"alice", "bob"}
Weights == {-300, 300, 700}
Author == "alice"
Stranger == "carol"

Vote(v, w) == [voter |-> v, weight |-> w, percent |-> 10000]

VoteUniverse == {Vote(v, w) : v \in Voters, w \in Weights}

SeqsUpTo(S, n) == UNION {[1..k -> S] : k \in 0..n}

VoteLists == SeqsUpTo(VoteUniverse, MaxVotes)

\* the values datetime.utcnow() is read at (seconds after `created`)
Times == {0, 600, 604799, 604800}

\* vote_time arguments (seconds relative to `created`; negative: before creation)
VoteTimes == {-60, 0, 150, 300, 450, 600, 900, 1200}

Hardforks == {19, 20, 21}

\* hardfork versions around and away from the two thresholds
WindowHardforks == {1, 19, 20, 21, 22, 24}

\* median history price: base HBD per quote HIVE, both in 1/1000 units
MedianHists == {None, Some([base |-> 250, quote |-> 1000])}

-----------------------------------------------------------------------------
(* Amount / Price arithmetic (bhive.amount.Amount, bhive.price.Price) *)

Amount(a, s) == [amount |-> a, symbol |-> s]

Plain(n) == Amount(n, "")

AmountAdd(x, y) == Amount(x.amount + y.amount, x.symbol)

AmountSub(x, y) == Amount(x.amount - y.amount, x.symbol)

\* Amount * (n/d), a scalar given as a fraction
AmountScale(x, n, d) == Amount((x.amount * n) \div d, x.symbol)

\* Price(median_hist) * Amount: an amount of the quote asset converted to the base asset
PriceMul(median_hist, x) ==
    Amount((x.amount * Get(median_hist).base) \div Get(median_hist).quote, "HBD")

\* Price(median_hist).as_base("HIVE") * Amount: an HBD amount converted to HIVE
PriceAsBaseHiveMul(median_hist, x) ==
    Amount((x.amount * Get(median_hist).quote) \div Get(median_hist).base, "HIVE")

-----------------------------------------------------------------------------
(* dict helpers *)

EmptyDict == [k \in {} |-> Plain(0)]

Put(d, key, value) == [k \in (DOMAIN d) \cup {key} |-> IF k = key THEN value ELSE d[k]]

-----------------------------------------------------------------------------
(* Comment accessors *)

time_elapsed(self, t) == t - self.created

\* self.get(key, default): the record is a dict and may lack the key
GetOr(self, key, default) == IF key \in DOMAIN self THEN self[key] ELSE default

reward(self) ==
    Amount(GetOr(self, "total_payout_value", 0) + GetOr(self, "curator_payout_value", 0)
               + GetOr(self, "pending_payout_value", 0), "HBD")

\* an age test that still counts the seventh day's last instant as pending
is_pending_inclusive(self, t) ==
    /\ time_elapsed(self, t) <= PendingDays * SecondsPerDay
    /\ GetOr(self, "total_payout_value", 0) = 0

is_pending(self, t) ==
    /\ time_elapsed(self, t) < PendingDays * SecondsPerDay
    /\ GetOr(self, "total_payout_value", 0) = 0

RECURSIVE SumWeights(_)
SumWeights(beneficiaries) ==
    IF beneficiaries = <<>> THEN 0
    ELSE Head(beneficiaries).weight + SumWeights(Tail(beneficiaries))

\* in basis points: the code's percentage is this value / 100
get_beneficiaries_pct(self) == SumWeights(self.beneficiaries)

\* a selection that keeps the HF20 window at hardfork 21
ReverseAuctionWindowLate(hardfork) ==
    IF hardfork > 21 THEN HIVE_REVERSE_AUCTION_WINDOW_SECONDS_HF21
    ELSE IF hardfork >= 20 THEN HIVE_REVERSE_AUCTION_WINDOW_SECONDS_HF20
    ELSE HIVE_REVERSE_AUCTION_WINDOW_SECONDS_HF6

\* lines 372-377: the window get_curation_penalty divides by
ReverseAuctionWindow(hardfork) ==
    IF hardfork >= 21 THEN HIVE_REVERSE_AUCTION_WINDOW_SECONDS_HF21
    ELSE IF hardfork >= 20 THEN HIVE_REVERSE_AUCTION_WINDOW_SECONDS_HF20
    ELSE HIVE_REVERSE_AUCTION_WINDOW_SECONDS_HF6

\* lines 329-334: the window curation_penalty_compensation_HBD multiplies by
CompensationWindow(hardfork) ==
    IF hardfork >= 21 THEN HIVE_REVERSE_AUCTION_WINDOW_SECONDS_HF21
    ELSE IF hardfork >= 20 THEN HIVE_REVERSE_AUCTION_WINDOW_SECONDS_HF20
    ELSE HIVE_REVERSE_AUCTION_WINDOW_SECONDS_HF6

-----------------------------------------------------------------------------
(* Comment.refresh: re-reads the content from the node and re-initialises  *)
(* the object with it (identifier is never "" for a constructed record).   *)

refresh(self, content, h) ==
    IF ~h.connected THEN self ELSE content

Fetches(h) == h.connected

-----------------------------------------------------------------------------
(* Comment.get_curation_penalty.  The float result is kept as the exact    *)
(* fraction num/den (den = the window, > 0).                               *)

Fraction(n, d) == [num |-> n, den |-> d]

get_curation_penalty_unclamped(self, h, t, vote_time) ==
    LET elapsed_seconds == IF vote_time = None THEN time_elapsed(self, t)
                           ELSE Get(vote_time) - self.created
        window == ReverseAuctionWindow(h.hardfork)
    IN  Fraction(window - elapsed_seconds, window)

get_curation_penalty(self, h, t, vote_time) ==
    LET elapsed_seconds == IF vote_time = None THEN time_elapsed(self, t)
                           ELSE Get(vote_time) - self.created
        window == ReverseAuctionWindow(h.hardfork)
        \* reward = elapsed_seconds / window; if reward > 1: reward = 1.0
        rewardNum == IF elapsed_seconds > window THEN window ELSE elapsed_seconds
    IN  Fraction(window - rewardNum, window)

-----------------------------------------------------------------------------
(* Comment.get_curation_rewards *)

TotalVoteWeight(self) ==
    LET RECURSIVE Sum(_)
        Sum(votes) == IF votes = <<>> THEN 0 ELSE Head(votes).weight + Sum(Tail(votes))
    IN  IF self.total_vote_weight # None THEN Get(self.total_vote_weight)
        ELSE Sum(self.active_votes)

\* lines 533-550: max_rewards and the pending flag
MaxRewards(self, h, t, pending_payout_HBD, pending_payout_value) ==
    IF ~self.allow_curation_rewards \/ ~is_pending(self, t)
    THEN [max_rewards |-> Amount(0, "HIVE"), pending_rewards |-> FALSE]
    ELSE LET ppv == IF pending_payout_value = None
                    THEN Amount(self.pending_payout_value, "HBD")
                    ELSE Amount(Get(pending_payout_value), "HBD")
         IN  [max_rewards |->
                 IF pending_payout_HBD \/ h.median_hist = None
                 THEN AmountScale(ppv, 25, 100)
                 ELSE PriceAsBaseHiveMul(h.median_hist, AmountScale(ppv, 25, 100)),
              pending_rewards |-> TRUE]

\* a loop that charges every claim, positive or not
RECURSIVE DistributeAllClaims(_, _, _, _, _)
DistributeAllClaims(votes, total_vote_weight, max_rewards, pending_rewards, acc) ==
    IF votes = <<>> THEN acc
    ELSE LET vote == Head(votes)
             claim == IF total_vote_weight > 0
                      THEN Amount((max_rewards.amount * vote.weight) \div total_vote_weight,
                                  max_rewards.symbol)
                      ELSE Plain(0)
         IN  DistributeAllClaims(Tail(votes), total_vote_weight, max_rewards, pending_rewards,
                 [unclaimed_rewards |-> IF pending_rewards
                                        THEN AmountSub(acc.unclaimed_rewards, claim)
                                        ELSE acc.unclaimed_rewards,
                  active_votes |-> Put(acc.active_votes, vote.voter,
                                       IF claim.amount > 0 THEN claim ELSE Plain(0))])

\* a loop that records every claim as it is, negative ones too
RECURSIVE DistributeSignedClaims(_, _, _, _, _)
DistributeSignedClaims(votes, total_vote_weight, max_rewards, pending_rewards, acc) ==
    IF votes = <<>> THEN acc
    ELSE LET vote == Head(votes)
             claim == IF total_vote_weight > 0
                      THEN Amount((max_rewards.amount * vote.weight) \div total_vote_weight,
                                  max_rewards.symbol)
                      ELSE Plain(0)
         IN  DistributeSignedClaims(Tail(votes), total_vote_weight, max_rewards, pending_rewards,
                 [unclaimed_rewards |-> IF claim.amount > 0 /\ pending_rewards
                                        THEN AmountSub(acc.unclaimed_rewards, claim)
                                        ELSE acc.unclaimed_rewards,
                  active_votes |-> Put(acc.active_votes, vote.voter, claim)])

\* lines 552-564: the loop over the votes, in order
RECURSIVE DistributeVotes(_, _, _, _, _)
DistributeVotes(votes, total_vote_weight, max_rewards, pending_rewards, acc) ==
    IF votes = <<>> THEN acc
    ELSE LET vote == Head(votes)
             claim == IF total_vote_weight > 0
                      THEN Amount((max_rewards.amount * vote.weight) \div total_vote_weight,
                                  max_rewards.symbol)
                      ELSE Plain(0)
         IN  DistributeVotes(Tail(votes), total_vote_weight, max_rewards, pending_rewards,
                 [unclaimed_rewards |-> IF claim.amount > 0 /\ pending_rewards
                                        THEN AmountSub(acc.unclaimed_rewards, claim)
                                        ELSE acc.unclaimed_rewards,
                  active_votes |-> Put(acc.active_votes, vote.voter,
                                       IF claim.amount > 0 THEN claim ELSE Plain(0))])

get_curation_rewards(self, h, t, pending_payout_HBD, pending_payout_value) ==
    LET m == MaxRewards(self, h, t, pending_payout_HBD, pending_payout_value)
        d == DistributeVotes(self.active_votes, TotalVoteWeight(self), m.max_rewards,
                             m.pending_rewards,
                             [unclaimed_rewards |-> m.max_rewards, active_votes |-> EmptyDict])
    IN  [pending_rewards |-> m.pending_rewards,
         unclaimed_rewards |-> d.unclaimed_rewards,
         active_votes |-> d.active_votes]

-----------------------------------------------------------------------------
(* Comment.get_author_rewards *)

\* lines 464-467: the record is not pending
AuthorRewardsFinal(self) ==
    [pending_rewards |-> FALSE,
     payout_HP |-> Amount(0, "HIVE"),
     payout_HBD |-> Amount(0, "HBD"),
     total_payout_HBD |-> Amount(self.total_payout_value, "HBD")]

\* lines 469-487: the record is pending; curation_rewards is what the nested
\* get_curation_rewards() call returned
AuthorRewardsPending(self, h, curation_rewards) ==
    LET beneficiaries_pct == get_beneficiaries_pct(self)
        curation_tokens == AmountScale(reward(self), 25, 100)
        author_tokens0 == AmountSub(reward(self), curation_tokens)
        author_tokens1 ==
            IF h.hardfork >= 20 /\ h.median_hist # None
            THEN AmountAdd(author_tokens0,
                           PriceMul(h.median_hist, curation_rewards.unclaimed_rewards))
            ELSE author_tokens0
        benefactor_tokens == AmountScale(author_tokens1, beneficiaries_pct, 10000)
        author_tokens == AmountSub(author_tokens1, benefactor_tokens)
        hbd_hive == AmountScale(author_tokens, self.percent_hive_dollars, 20000)
        vesting_hive == PriceAsBaseHiveMul(h.median_hist, AmountSub(author_tokens, hbd_hive))
    IN  IF h.median_hist # None
        THEN [pending_rewards |-> TRUE,
              payout_HP |-> vesting_hive,
              payout_HBD |-> hbd_hive,
              total_payout_HBD |-> author_tokens]
        ELSE [pending_rewards |-> TRUE, total_payout |-> author_tokens]

-----------------------------------------------------------------------------
(* Comment.get_rewards *)

Returned(v) == [status |-> "returned", value |-> v]

Raised(e) == [status |-> "raised", error |-> e]

NoResult == [status |-> "none"]

\* a finalized branch that reads the two payout fields the wrong way round
RewardsFinalSwapped(self) ==
    LET author_payout == Amount(self.curator_payout_value, "HBD")
        curator_payout == Amount(self.total_payout_value, "HBD")
    IN  Returned([total_payout |-> AmountAdd(author_payout, curator_payout),
                  author_payout |-> author_payout,
                  curator_payout |-> curator_payout])

\* lines 445-447: the record is not pending
RewardsFinal(self) ==
    LET author_payout == Amount(self.total_payout_value, "HBD")
        curator_payout == Amount(self.curator_payout_value, "HBD")
    IN  Returned([total_payout |-> AmountAdd(author_payout, curator_payout),
                  author_payout |-> author_payout,
                  curator_payout |-> curator_payout])

\* a pending branch that reports the curation share of the estimate instead
RewardsPendingQuarter(self, author_rewards) ==
    IF "total_payout_HBD" \notin DOMAIN author_rewards THEN Raised("KeyError")
    ELSE LET total_payout == Amount(self.pending_payout_value, "HBD")
         IN  Returned([total_payout |-> total_payout,
                       author_payout |-> author_rewards.total_payout_HBD,
                       curator_payout |-> AmountScale(total_payout, 25, 100)])

\* lines 441-443: the record is pending; author_rewards is what the nested
\* get_author_rewards() call returned
RewardsPending(self, author_rewards) ==
    IF "total_payout_HBD" \notin DOMAIN author_rewards THEN Raised("KeyError")
    ELSE LET total_payout == Amount(self.pending_payout_value, "HBD")
             author_payout == author_rewards.total_payout_HBD
         IN  Returned([total_payout |-> total_payout,
                       author_payout |-> author_payout,
                       curator_payout |-> AmountSub(total_payout, author_payout)])

-----------------------------------------------------------------------------
(* Comment.curation_penalty_compensation_HBD and estimate_curation_HBD,    *)
(* applied to the record as refresh() left it.  Results that are floats    *)
(* with no exact fixed-point value are kept as the terms of the formula.   *)

\* Amount / float, the float kept as (elapsed / 60) before squaring: a zero divisor raises
AmountDiv(x, elapsed_minutes) ==
    IF elapsed_minutes.num = 0 THEN Raised("ZeroDivisionError")
    ELSE Returned([numerator |-> x, elapsed_minutes |-> elapsed_minutes])

\* a division that yields infinity for a zero divisor
curation_penalty_compensation_HBD_inf(self, h, t) ==
    LET reverse_auction_window_seconds == CompensationWindow(h.hardfork)
        elapsed == time_elapsed(self, t)
    IN  Returned([numerator |-> AmountScale(reward(self), reverse_auction_window_seconds, 1),
                  elapsed_minutes |-> Fraction(elapsed, 60)])

curation_penalty_compensation_HBD(self, h, t) ==
    LET reverse_auction_window_seconds == CompensationWindow(h.hardfork)
        elapsed == time_elapsed(self, t)
    IN  \* reward * window / (elapsed / 60) ** 2
        AmountDiv(AmountScale(reward(self), reverse_auction_window_seconds, 1),
                  Fraction(elapsed, 60))

estimate_curation_HBD(self, h, t, vote_value_HBD, estimated_value_HBD) ==
    LET estimated == IF estimated_value_HBD = None THEN reward(self).amount
                     ELSE Get(estimated_value_HBD)
        penalty == get_curation_penalty(self, h, t, None)
        t_ == Fraction(penalty.den - penalty.num, penalty.den)
        kDen == vote_value_HBD + reward(self).amount
    IN  IF kDen = 0 THEN Raised("ZeroDivisionError")
        ELSE IF vote_value_HBD = 0 THEN Raised("ZeroDivisionError")
        ELSE \* K * vote_value_HBD * t * sqrt(estimated_value_HBD), K = (1 - sqrt(1 - k)) / 4 / k
             Returned([k |-> Fraction(vote_value_HBD, kDen),
                       vote_value_HBD |-> vote_value_HBD,
                       t |-> t_,
                       estimated_value_HBD |-> estimated])

-----------------------------------------------------------------------------
(* Comment.get_vote_with_curation *)

\* lines 397-399: the loop keeps the last entry whose voter matches; 0 when none does
FindVote(active_votes, name) ==
    LET hits == {i \in DOMAIN active_votes : active_votes[i].voter = name}
    IN  IF hits = {} THEN 0 ELSE CHOOSE i \in hits : \A j \in hits : j <= i

\* lines 408-411 when they always run: the entry gets its derived fields
AnnotateAlways(vote, curation_reward, voting_value, raw_or_final) ==
    LET withReward == Put(vote, "curation_reward", curation_reward)
    IN  IF voting_value = 0
        THEN [vote |-> withReward, result |-> Raised("ZeroDivisionError")]
        ELSE LET withROI == Put(withReward, "ROI",
                                Fraction(curation_reward.amount * 100, voting_value))
             IN  [vote |-> withROI, result |-> Returned(Some(withROI))]

\* lines 405-411 for a vote that was found: the entry as the call leaves it and
\* what the call returns; curation_reward is the voter's entry of get_curation_rewards
Annotate(vote, curation_reward, voting_value, raw_or_final) ==
    IF raw_or_final THEN [vote |-> vote, result |-> Returned(Some(vote))]
    ELSE LET withReward == Put(vote, "curation_reward", curation_reward)
         IN  IF voting_value = 0
             THEN [vote |-> withReward, result |-> Raised("ZeroDivisionError")]
             ELSE LET withROI == Put(withReward, "ROI",
                                     Fraction(curation_reward.amount * 100, voting_value))
                  IN  [vote |-> withROI, result |-> Returned(Some(withROI))]

-----------------------------------------------------------------------------
(* State *)

Payouts ==
    { [total |-> 0, curator |-> 0, pending |-> 8000],
      [total |-> 10000, curator |-> 3000, pending |-> 0] }

\* the payouts of the vote-list runs: also a record that is still pending although a
\* curator payout is already booked
VotePayouts == Payouts \cup { [total |-> 0, curator |-> 3000, pending |-> 1000] }

\* the pre-aggregated total_vote_weight field: missing, below and above the vote sums
TotalVoteWeights == {None, Some(100), Some(1000)}

BeneficiaryLists == { <<>>, <<[account |-> "dave", weight |-> 2500]>> }

\* voter.get_voting_value_HBD(...) of the account model, 1/1000 HBD
VotingValues == {0, 2000}

VoteValues == {0, 1000}

Record(votes, tvw, pay, allow, beneficiaries) ==
    [author |-> Author,
     created |-> 0,
     total_payout_value |-> pay.total,
     curator_payout_value |-> pay.curator,
     pending_payout_value |-> pay.pending,
     percent_hive_dollars |-> 10000,
     allow_curation_rewards |-> allow,
     beneficiaries |-> beneficiaries,
     active_votes |-> votes,
     total_vote_weight |-> tvw]

NoFrame(self) ==
    [op |-> "none", locals |-> EmptyDict, before |-> self, pending |-> <<>>, fetched |-> FALSE]

InitWith(self, h) ==
    /\ comment = self
    /\ chain = self
    /\ hive = h
    /\ now = 0
    /\ pc = "idle"
    /\ frame = NoFrame(self)
    /\ result = NoResult
    /\ prev = None

\* every vote list, on a connected post-HF21 node with a median price
InitVotes ==
    \E votes \in VoteLists, tvw \in TotalVoteWeights, pay \in VotePayouts, allow \in BOOLEAN :
       InitWith(Record(votes, tvw, pay, allow, <<>>),
                [hardfork |-> 21, median_hist |-> Some([base |-> 250, quote |-> 1000]),
                 connected |-> TRUE])

\* every node state, for a few vote lists
InitEnv ==
    \E votes \in {<<>>, <<Vote("alice", 300), Vote("bob", 700)>>,
                   <<Vote("bob", -300), Vote("bob", 700)>>},
       pay \in Payouts, allow \in BOOLEAN, beneficiaries \in BeneficiaryLists,
       hf \in Hardforks, mh \in MedianHists :
        InitWith(Record(votes, None, pay, allow, beneficiaries),
                 [hardfork |-> hf, median_hist |-> mh, connected |-> TRUE])

\* a client whose node is not connected
InitOffline ==
    \E pay \in Payouts, hf \in Hardforks :
        InitWith(Record(<<Vote("alice", 300), Vote("bob", 700)>>, None, pay, TRUE, <<>>),
                 [hardfork |-> hf, median_hist |-> Some([base |-> 250, quote |-> 1000]),
                  connected |-> FALSE])

\* a pending record with no votes, every hardfork
InitPenalty ==
    \E hf \in WindowHardforks :
        InitWith(Record(<<>>, None, [total |-> 0, curator |-> 0, pending |-> 8000], TRUE, <<>>),
                 [hardfork |-> hf, median_hist |-> None, connected |-> TRUE])

\* the payout fields a record may lack (a dict built from a partial API answer)
OptionalKeys == {"total_payout_value", "curator_payout_value", "pending_payout_value"}

Without(self, keys) == [k \in (DOMAIN self) \ keys |-> self[k]]

\* records with any of the payout fields missing, and a total of 0, 0.001 or 10 HBD
InitPartial ==
    \E total \in {0, 1, 10000}, curator \in {0, 3000}, pending \in {0, 8000},
       missing \in SUBSET OptionalKeys :
        InitWith(Without(Record(<<>>, None,
                                [total |-> total, curator |-> curator, pending |-> pending],
                                TRUE, <<>>), missing),
                 [hardfork |-> 21, median_hist |-> None, connected |-> TRUE])

Init == InitEnv \/ InitOffline

-----------------------------------------------------------------------------
(* Calls.  A call starts from "idle".  The clock is observed only where a   *)
(* method reads it (time_elapsed()), so it advances at the reads: each read *)
(* returns some time not before the previous one.  A call that reads the    *)
(* clock more than once (one is_pending() per nested method) is cut at each *)
(* further read.                                                            *)

DefaultCurationArgs == [pending_payout_HBD |-> FALSE, pending_payout_value |-> None]

NewFrame(op, locals) ==
    [op |-> op, locals |-> locals, before |-> comment, pending |-> <<>>, fetched |-> FALSE]

Decide(fr, at, p) == [fr EXCEPT !.pending = Append(@, [at |-> at, is |-> p])]

Return(fr, r) ==
    /\ pc' = "idle"
    /\ frame' = fr
    /\ result' = r

\* datetime.utcnow() in time_elapsed()
ReadClock(t) ==
    /\ t \in Times
    /\ t >= now
    /\ now' = t

\* the chain pays the post out at cashout time; the client does not see it
ChainPayout ==
    /\ pc = "idle"
    /\ now >= PendingDays * SecondsPerDay
    /\ chain.total_payout_value = 0
    /\ chain.pending_payout_value > 0
    /\ chain' = [chain EXCEPT !.total_payout_value = chain.pending_payout_value
                                                     - chain.pending_payout_value \div 4,
                              !.curator_payout_value = chain.pending_payout_value \div 4,
                              !.pending_payout_value = 0]
    /\ UNCHANGED <<comment, hive, now, pc, frame, result, prev>>

\* get_curation_rewards (lines 518-566), its clock read at t, and the rest of the
\* caller it returns to
CurationRewardsBody(fr, t) ==
    LET a == fr.locals
        cr == get_curation_rewards(comment, hive, t,
                                   a.pending_payout_HBD, a.pending_payout_value)
        fr2 == Decide(fr, "get_curation_rewards", is_pending(comment, t))
    IN  CASE fr.op = "get_curation_rewards" ->
                /\ Return(fr2, Returned(cr))
                /\ comment' = comment
          [] fr.op = "get_author_rewards" ->
                /\ Return(fr2, Returned(AuthorRewardsPending(comment, hive, cr)))
                /\ comment' = comment
          [] fr.op = "get_rewards" ->
                /\ Return(fr2, RewardsPending(comment, AuthorRewardsPending(comment, hive, cr)))
                /\ comment' = comment
          [] fr.op = "get_vote_with_curation" ->
                LET i == FindVote(comment.active_votes, a.name)
                    an == Annotate(comment.active_votes[i], cr.active_votes[a.name],
                                   a.voting_value, FALSE)
                IN  /\ Return(fr2, an.result)
                    /\ comment' = [comment EXCEPT !.active_votes[i] = an.vote]

\* get_author_rewards (lines 463-487), its clock read at t, up to its call of
\* get_curation_rewards
AuthorRewardsBody(fr, t) ==
    LET p == is_pending(comment, t)
        fr2 == Decide(fr, "get_author_rewards", p)
    IN  IF ~p
        THEN Return(fr2, IF fr.op = "get_rewards"
                         THEN RewardsPending(comment, AuthorRewardsFinal(comment))
                         ELSE Returned(AuthorRewardsFinal(comment)))
        ELSE /\ pc' = "get_curation_rewards"
             /\ frame' = fr2
             /\ result' = NoResult

GetRewards ==
    /\ pc = "idle"
    /\ \E t \in Times :
          /\ ReadClock(t)
          /\ LET p == is_pending(comment, t)
                 fr == Decide(NewFrame("get_rewards", DefaultCurationArgs), "get_rewards", p)
             IN  IF p
                 THEN /\ pc' = "get_author_rewards"
                      /\ frame' = fr
                      /\ result' = NoResult
                 ELSE Return(fr, RewardsFinal(comment))
    /\ prev' = None
    /\ UNCHANGED <<comment, chain, hive>>

GetAuthorRewards ==
    /\ pc = "idle"
    /\ \E t \in Times :
          /\ ReadClock(t)
          /\ AuthorRewardsBody(NewFrame("get_author_rewards", DefaultCurationArgs), t)
    /\ prev' = None
    /\ UNCHANGED <<comment, chain, hive>>

\* the nested get_author_rewards() of a running get_rewards()
AuthorRewardsStep ==
    /\ pc = "get_author_rewards"
    /\ \E t \in Times :
          /\ ReadClock(t)
          /\ AuthorRewardsBody(frame, t)
    /\ UNCHANGED <<comment, chain, hive, prev>>

GetCurationRewards ==
    /\ pc = "idle"
    /\ \E t \in Times, hbd \in BOOLEAN, ppv \in {None, Some(4000)} :
          /\ ReadClock(t)
          /\ CurationRewardsBody(NewFrame("get_curation_rewards",
                 [pending_payout_HBD |-> hbd, pending_payout_value |-> ppv]), t)
    /\ prev' = None
    /\ UNCHANGED <<chain, hive>>

\* the nested get_curation_rewards() of a running call
CurationRewardsStep ==
    /\ pc = "get_curation_rewards"
    /\ \E t \in Times :
          /\ ReadClock(t)
          /\ CurationRewardsBody(frame, t)
    /\ UNCHANGED <<chain, hive, prev>>

\* get_curation_penalty(vote_time); the clock is read only when vote_time is None
PenaltyCall(vote_time, traced) ==
    /\ pc = "idle"
    /\ \E t \in Times :
          /\ IF vote_time = None THEN ReadClock(t) ELSE t = now /\ now' = now
          /\ LET elapsed == IF vote_time = None THEN time_elapsed(comment, t)
                            ELSE Get(vote_time) - comment.created
                 fr == NewFrame("get_curation_penalty",
                                [vote_time |-> vote_time, elapsed_seconds |-> elapsed])
             IN  Return(fr, Returned(get_curation_penalty(comment, hive, t, vote_time)))
    /\ prev' = IF traced
               THEN Some([elapsed_seconds |-> frame.locals.elapsed_seconds,
                          penalty |-> result.value])
               ELSE None
    /\ UNCHANGED <<comment, chain, hive>>

GetCurationPenalty ==
    \E vote_time \in {None} \cup {Some(t) : t \in VoteTimes} : PenaltyCall(vote_time, FALSE)

\* a second get_curation_penalty call right after one, the first result kept in prev
GetCurationPenaltyAgain ==
    /\ frame.op = "get_curation_penalty"
    /\ \E vote_time \in {None} \cup {Some(t) : t \in VoteTimes} : PenaltyCall(vote_time, TRUE)

CurationPenaltyCompensationHBD ==
    /\ pc = "idle"
    /\ comment' = refresh(comment, chain, hive)
    /\ \E t \in Times :
          /\ ReadClock(t)
          /\ Return([NewFrame("curation_penalty_compensation_HBD",
                              [reverse_auction_window_seconds |->
                                   CompensationWindow(hive.hardfork)])
                         EXCEPT !.fetched = Fetches(hive)],
                    curation_penalty_compensation_HBD(comment', hive, t))
    /\ prev' = None
    /\ UNCHANGED <<chain, hive>>

EstimateCurationHBD ==
    /\ pc = "idle"
    /\ comment' = refresh(comment, chain, hive)
    /\ \E t \in Times, v \in VoteValues :
          /\ ReadClock(t)
          /\ Return([NewFrame("estimate_curation_HBD", [vote_value_HBD |-> v])
                         EXCEPT !.fetched = Fetches(hive)],
                    estimate_curation_HBD(comment', hive, t, v, None))
    /\ prev' = None
    /\ UNCHANGED <<chain, hive>>

\* get_vote_with_curation; the clock is read only for a vote that was found when
\* raw_data is false (the `or` at line 405 short-circuits)
GetVoteWithCuration ==
    /\ pc = "idle"
    /\ \E voter \in {None, Some("alice"), Some("bob"), Some(Stranger)},
          raw_data \in BOOLEAN, ppv \in {None}, vv \in VotingValues, t \in Times :
          LET name == IF voter = None THEN comment.author ELSE Get(voter)
              i == FindVote(comment.active_votes, name)
              fr == NewFrame("get_vote_with_curation",
                             [name |-> name, raw_data |-> raw_data,
                              pending_payout_HBD |-> TRUE, pending_payout_value |-> ppv,
                              voting_value |-> vv])
          IN  IF i = 0
              THEN /\ t = now /\ now' = now
                   /\ Return(fr, Returned(None))
              ELSE IF raw_data
              THEN /\ t = now /\ now' = now
                   /\ Return(fr, Annotate(comment.active_votes[i], Plain(0), vv, TRUE).result)
              ELSE /\ ReadClock(t)
                   /\ LET p == is_pending(comment, t)
                          fr2 == Decide(fr, "get_vote_with_curation", p)
                      IN  IF ~p
                          THEN Return(fr2, Annotate(comment.active_votes[i], Plain(0), vv,
                                                    TRUE).result)
                          ELSE /\ pc' = "get_curation_rewards"
                               /\ frame' = fr2
                               /\ result' = NoResult
    /\ prev' = None
    /\ UNCHANGED <<comment, chain, hive>>

\* is_pending() called on its own
IsPending ==
    /\ pc = "idle"
    /\ \E t \in Times :
          /\ ReadClock(t)
          /\ LET p == is_pending(comment, t)
             IN  Return(Decide(NewFrame("is_pending", EmptyDict), "is_pending", p),
                        Returned(p))
    /\ prev' = None
    /\ UNCHANGED <<comment, chain, hive>>

\* the reward property; it does not read the clock
GetReward ==
    /\ pc = "idle"
    /\ Return(NewFrame("reward", EmptyDict), Returned(reward(comment)))
    /\ prev' = None
    /\ UNCHANGED <<comment, chain, hive, now>>

Next ==
    \/ ChainPayout
    \/ GetRewards
    \/ GetAuthorRewards
    \/ AuthorRewardsStep
    \/ GetCurationRewards
    \/ CurationRewardsStep
    \/ GetCurationPenalty
    \/ CurationPenaltyCompensationHBD
    \/ EstimateCurationHBD
    \/ GetVoteWithCuration

Spec == Init /\ [][Next]_vars

\* the reward computations over every vote list
NextVotes ==
    \/ GetRewards
    \/ GetAuthorRewards
    \/ AuthorRewardsStep
    \/ GetCurationRewards
    \/ CurationRewardsStep

SpecVotes == InitVotes /\ [][NextVotes]_vars

\* get_curation_penalty called twice in a row
NextPenalty ==
    \/ GetCurationPenalty
    \/ GetCurationPenaltyAgain

SpecPenalty == InitPenalty /\ [][NextPenalty]_vars

\* the two methods that select a reverse-auction window
NextWindow ==
    \/ GetCurationPenalty
    \/ CurationPenaltyCompensationHBD

SpecWindow == InitPenalty /\ [][NextWindow]_vars

\* the accessors over records that lack payout fields
NextPartial ==
    \/ IsPending
    \/ GetReward

SpecPartial == InitPartial /\ [][NextPartial]_vars

-----------------------------------------------------------------------------
(* Claims *)

Finished(op) == pc = "idle" /\ frame.op = op

RECURSIVE SumAmounts(_)
SumAmounts(d) ==
    IF DOMAIN d = {} THEN 0
    ELSE LET k == CHOOSE x \in DOMAIN d : TRUE
         IN  d[k].amount + SumAmounts([x \in (DOMAIN d) \ {k} |-> d[x]])

DistinctVoters(votes) ==
    \A i, j \in DOMAIN votes : votes[i].voter = votes[j].voter => i = j

\* C1: whenever get_rewards returns a result, for a pending or a finalized record,
\* total_payout == author_payout + curator_payout.
C1_TotalIsAuthorPlusCurator ==
    (Finished("get_rewards") /\ result.status = "returned") =>
        result.value.total_payout.amount
            = result.value.author_payout.amount + result.value.curator_payout.amount

\* C1 witness: get_rewards took the pending branch through both nested calls and
\* returned a positive author payout and a positive curator payout.
C1_Witness ==
    /\ Finished("get_rewards")
    /\ result.status = "returned"
    /\ Len(frame.pending) = 3
    /\ \A i \in DOMAIN frame.pending : frame.pending[i].is
    /\ result.value.author_payout.amount > 0
    /\ result.value.curator_payout.amount > 0

\* the max_rewards of the finished get_curation_rewards call (its clock read is `now`)
C2_MaxRewards ==
    MaxRewards(comment, hive, now, frame.locals.pending_payout_HBD,
               frame.locals.pending_payout_value).max_rewards

C2_Conservation ==
    LET cr == result.value
        total_vote_weight == TotalVoteWeight(comment)
    IN  /\ total_vote_weight > 0 =>
              cr.unclaimed_rewards.amount + SumAmounts(cr.active_votes) = C2_MaxRewards.amount
        /\ total_vote_weight = 0 =>
              /\ \A v \in DOMAIN cr.active_votes : cr.active_votes[v].amount = 0
              /\ cr.unclaimed_rewards.amount = C2_MaxRewards.amount

\* C2 as stated: for every vote list (any weights, any voter names), unclaimed_rewards
\* plus the per-voter entries equals max_rewards when total_vote_weight > 0, and every
\* entry is 0 with unclaimed_rewards == max_rewards when total_vote_weight == 0.
C2_AnyVoterNames ==
    (Finished("get_curation_rewards") /\ result.status = "returned") => C2_Conservation

\* C2 amended: the same, for vote lists in which no voter name occurs twice.
C2_DistinctVoterNames ==
    (/\ Finished("get_curation_rewards")
     /\ result.status = "returned"
     /\ DistinctVoters(comment.active_votes)) => C2_Conservation

\* C2 witness: a pending record with two different voters, both with a positive claim.
C2_Witness ==
    /\ Finished("get_curation_rewards")
    /\ result.status = "returned"
    /\ result.value.pending_rewards
    /\ Len(comment.active_votes) = 2
    /\ DistinctVoters(comment.active_votes)
    /\ TotalVoteWeight(comment) > 0
    /\ \A v \in DOMAIN result.value.active_votes : result.value.active_votes[v].amount > 0

\* C3: within one get_rewards call, if get_rewards took the pending branch then the
\* nested get_author_rewards and get_curation_rewards also see the record as pending.
C3_OneInstantPerCall ==
    frame.op = "get_rewards" =>
        \A i \in DOMAIN frame.pending : frame.pending[1].is => frame.pending[i].is

\* C4: get_curation_penalty returns a value in [0, 1] for every hardfork and every
\* vote_time, also one before `created`.
C4_PenaltyInUnitInterval ==
    (Finished("get_curation_penalty") /\ result.status = "returned") =>
        /\ 0 <= result.value.num
        /\ result.value.num <= result.value.den

\* C5: for a fixed hardfork, get_curation_penalty is exactly 1 at elapsed 0, exactly 0
\* at elapsed >= window, and does not increase with elapsed time over [0, window].
C5_PenaltyMonotone ==
    (Finished("get_curation_penalty") /\ result.status = "returned") =>
        LET elapsed == frame.locals.elapsed_seconds
            window == ReverseAuctionWindow(hive.hardfork)
            penalty == result.value
        IN  /\ elapsed = 0 => penalty.num = penalty.den
            /\ elapsed >= window => penalty.num = 0
            /\ (/\ prev # None
                /\ 0 <= Get(prev).elapsed_seconds
                /\ Get(prev).elapsed_seconds <= elapsed
                /\ elapsed <= window) =>
                   penalty.num * Get(prev).penalty.den <= Get(prev).penalty.num * penalty.den

\* C5 witness: two calls in a row inside the window, the later one with the strictly
\* smaller penalty.
C5_Witness ==
    /\ Finished("get_curation_penalty")
    /\ prev # None
    /\ 0 < Get(prev).elapsed_seconds
    /\ Get(prev).elapsed_seconds < frame.locals.elapsed_seconds
    /\ frame.locals.elapsed_seconds < ReverseAuctionWindow(hive.hardfork)
    /\ result.value.num * Get(prev).penalty.den < Get(prev).penalty.num * result.value.den

\* C6: with allow_curation_rewards false, get_curation_rewards returns unclaimed 0,
\* every per-voter claim 0, and a pending flag equal to is_pending() of the record.
C6_PendingFlagOfRecord ==
    (/\ Finished("get_curation_rewards")
     /\ result.status = "returned"
     /\ ~comment.allow_curation_rewards) =>
        /\ result.value.unclaimed_rewards.amount = 0
        /\ \A v \in DOMAIN result.value.active_votes : result.value.active_votes[v].amount = 0
        /\ result.value.pending_rewards = is_pending(comment, now)

\* C7: with no median price a pending record is processed without raising:
\* get_curation_rewards, get_author_rewards (a partial result with only the pending
\* flag and the total) and get_rewards all return.
C7_NoMedianPriceReturns ==
    (/\ pc = "idle"
     /\ frame.op \in {"get_curation_rewards", "get_author_rewards", "get_rewards"}
     /\ hive.median_hist = None
     /\ \A i \in DOMAIN frame.pending : frame.pending[i].is) =>
        /\ result.status = "returned"
        /\ frame.op = "get_author_rewards" =>
              DOMAIN result.value = {"pending_rewards", "total_payout"}
        /\ frame.op = "get_rewards" =>
              DOMAIN result.value = {"total_payout", "author_payout", "curator_payout"}

\* C8: after a call of get_rewards, get_author_rewards, get_curation_rewards,
\* get_curation_penalty or get_vote_with_curation has returned, the record is as it
\* was before the call: same fields, same entries of active_votes.
C8_RecordNotMutated ==
    (/\ pc = "idle"
     /\ result.status = "returned"
     /\ frame.op \in {"get_rewards", "get_author_rewards", "get_curation_rewards",
                      "get_curation_penalty", "get_vote_with_curation"}) =>
        comment = frame.before

EngineOps ==
    {"get_rewards", "get_author_rewards", "get_curation_rewards", "get_curation_penalty",
     "curation_penalty_compensation_HBD", "estimate_curation_HBD", "get_vote_with_curation"}

\* C9: no engine operation that has returned has fetched the content from the chain,
\* and the record after the call is the one supplied before it.
C9_NeverFetches ==
    (pc = "idle" /\ result.status = "returned" /\ frame.op \in EngineOps) =>
        /\ ~frame.fetched
        /\ frame.op \in {"curation_penalty_compensation_HBD", "estimate_curation_HBD"} =>
              comment = frame.before

\* C10: get_vote_with_curation returns None, without raising, when no entry has the
\* requested voter; when an entry has it and raw_data is true or the record is not
\* pending, it returns that entry as it was, and adds no field to the record.
C10_NotFoundOrUnmodified ==
    Finished("get_vote_with_curation") =>
        LET a == frame.locals
            votes == frame.before.active_votes
            matching == {i \in DOMAIN votes : votes[i].voter = a.name}
        IN  /\ matching = {} => result = Returned(None) /\ comment = frame.before
            /\ (/\ matching # {}
                /\ \/ a.raw_data
                   \/ frame.pending # <<>> /\ ~frame.pending[1].is) =>
                   /\ result.status = "returned"
                   /\ \E i \in matching : result.value = Some(votes[i])
                   /\ comment = frame.before

\* C10 witness: the voter has a vote, raw_data is false, the record is not pending,
\* and the entry came back.
C10_Witness ==
    /\ Finished("get_vote_with_curation")
    /\ ~frame.locals.raw_data
    /\ frame.pending # <<>>
    /\ ~frame.pending[1].is
    /\ result.status = "returned"
    /\ result.value # None

\* C11: for a record that is not pending when the call looks at it, get_author_rewards
\* returns pending false, zero vesting and liquid payouts and total == total_payout_value,
\* and get_rewards returns author_payout == total_payout_value and curator_payout ==
\* curator_payout_value, whatever the votes, beneficiaries, hardfork and median price.
C11_FinalizedPayouts ==
    /\ (Finished("get_author_rewards") /\ ~frame.pending[1].is) =>
           result = Returned([pending_rewards |-> FALSE,
                              payout_HP |-> Amount(0, "HIVE"),
                              payout_HBD |-> Amount(0, "HBD"),
                              total_payout_HBD |-> Amount(comment.total_payout_value, "HBD")])
    /\ (Finished("get_rewards") /\ ~frame.pending[1].is) =>
           /\ result.status = "returned"
           /\ result.value.author_payout = Amount(comment.total_payout_value, "HBD")
           /\ result.value.curator_payout = Amount(comment.curator_payout_value, "HBD")

\* C11 witness: get_rewards on a paid-out record with votes and a beneficiary, on a
\* node without a median price, returned the two paid amounts.
C11_Witness ==
    /\ Finished("get_rewards")
    /\ ~frame.pending[1].is
    /\ comment.active_votes # <<>>
    /\ comment.beneficiaries # <<>>
    /\ hive.median_hist = None
    /\ result.status = "returned"
    /\ result.value.author_payout.amount > 0
    /\ result.value.curator_payout.amount > 0
    /\ result.value.author_payout.amount # result.value.curator_payout.amount

\* C12: the two formulas with a denominator that can be zero raise instead of returning
\* infinity or NaN: curation_penalty_compensation_HBD when no time has elapsed since
\* creation, estimate_curation_HBD when vote_value is 0 (k == 0).
C12_ZeroDenominatorRaises ==
    /\ (Finished("curation_penalty_compensation_HBD") /\ time_elapsed(comment, now) = 0) =>
           result.status = "raised"
    /\ (Finished("estimate_curation_HBD") /\ frame.locals.vote_value_HBD = 0) =>
           result.status = "raised"

\* C12 witness: the compensation was asked for a record with a positive reward at the
\* instant of its creation, and the call raised.
C12_Witness ==
    /\ Finished("curation_penalty_compensation_HBD")
    /\ time_elapsed(comment, now) = 0
    /\ reward(comment).amount > 0
    /\ result = Raised("ZeroDivisionError")

\* C13: for a pending record whose beneficiary weights sum to w > 0, get_rewards
\* returns author_payout and total_payout with the beneficiaries' share (w/10000 of the
\* author tokens) deducted, so that curator_payout = total_payout - author_payout
\* holds no beneficiary money.
C13_BeneficiaryShareDeducted ==
    (/\ Finished("get_rewards")
     /\ result.status = "returned"
     /\ \A i \in DOMAIN frame.pending : frame.pending[i].is
     /\ get_beneficiaries_pct(comment) > 0) =>
        LET without == [comment EXCEPT !.beneficiaries = <<>>]
            curation_rewards == get_curation_rewards(comment, hive, now, FALSE, None)
            author_tokens == AuthorRewardsPending(without, hive, curation_rewards).total_payout_HBD
            share == AmountScale(author_tokens, get_beneficiaries_pct(comment), 10000)
        IN  /\ result.value.author_payout = AmountSub(author_tokens, share)
            /\ result.value.total_payout.amount = comment.pending_payout_value - share.amount
            /\ result.value.curator_payout.amount
                   = comment.pending_payout_value - author_tokens.amount

\* C14: every per-voter entry of get_curation_rewards is non-negative: a vote gets
\* max_rewards * weight / total_vote_weight when total_vote_weight > 0 and that amount
\* is positive, and exactly 0 otherwise (an entry is that of the voter's last vote);
\* unclaimed_rewards is max_rewards less the positive claims only.
C14_EntriesNonNegative ==
    (Finished("get_curation_rewards") /\ result.status = "returned") =>
        LET votes == comment.active_votes
            total_vote_weight == TotalVoteWeight(comment)
            max_rewards == C2_MaxRewards
            cr == result.value
            Claim(i) == IF total_vote_weight > 0
                        THEN (max_rewards.amount * votes[i].weight) \div total_vote_weight
                        ELSE 0
            Positive(i) == IF Claim(i) > 0 THEN Claim(i) ELSE 0
            RECURSIVE Claimed(_)
            Claimed(n) == IF n = 0 THEN 0 ELSE Positive(n) + Claimed(n - 1)
        IN  /\ DOMAIN cr.active_votes = {votes[i].voter : i \in DOMAIN votes}
            /\ \A v \in DOMAIN cr.active_votes : cr.active_votes[v].amount >= 0
            /\ \A i \in DOMAIN votes :
                  i = FindVote(votes, votes[i].voter) =>
                      cr.active_votes[votes[i].voter].amount = Positive(i)
            /\ cr.unclaimed_rewards.amount
                   = max_rewards.amount - (IF cr.pending_rewards THEN Claimed(Len(votes)) ELSE 0)

\* C14 witness: a pending record with a negative-weight vote and a positive-weight vote
\* of two voters: the first entry is 0, the second is positive and alone was charged.
C14_Witness ==
    /\ Finished("get_curation_rewards")
    /\ result.status = "returned"
    /\ result.value.pending_rewards
    /\ TotalVoteWeight(comment) > 0
    /\ Len(comment.active_votes) = 2
    /\ comment.active_votes[1].weight < 0
    /\ comment.active_votes[2].weight > 0
    /\ comment.active_votes[1].voter # comment.active_votes[2].voter
    /\ result.value.active_votes[comment.active_votes[1].voter].amount = 0
    /\ result.value.active_votes[comment.active_votes[2].voter].amount > 0
    /\ result.value.unclaimed_rewards.amount
           = C2_MaxRewards.amount
               - result.value.active_votes[comment.active_votes[2].voter].amount

\* C15: the reverse-auction window is looked up from the hardfork version (>= 21 the
\* HF21 constant, 20 the HF20 constant, below 20 the HF6 constant), and
\* get_curation_penalty and curation_penalty_compensation_HBD use the same window for
\* the same hardfork version.
C15_WindowByHardfork ==
    LET window == IF hive.hardfork >= 21 THEN HIVE_REVERSE_AUCTION_WINDOW_SECONDS_HF21
                  ELSE IF hive.hardfork = 20 THEN HIVE_REVERSE_AUCTION_WINDOW_SECONDS_HF20
                  ELSE HIVE_REVERSE_AUCTION_WINDOW_SECONDS_HF6
    IN  /\ Finished("get_curation_penalty") => result.value.den = window
        /\ Finished("curation_penalty_compensation_HBD") =>
               /\ frame.locals.reverse_auction_window_seconds = window
               /\ result.status = "returned" =>
                      result.value.numerator.amount = reward(comment).amount * window

\* C15 witness: at hardfork 21 the compensation of a record with a positive reward
\* returned, having multiplied the reward by the HF21 window.
C15_Witness ==
    /\ Finished("curation_penalty_compensation_HBD")
    /\ hive.hardfork = 21
    /\ reward(comment).amount > 0
    /\ result.status = "returned"
    /\ result.value.numerator.amount
           = reward(comment).amount * HIVE_REVERSE_AUCTION_WINDOW_SECONDS_HF21

\* C16: is_pending() is true exactly when the record's age is strictly below 7 days and
\* total_payout_value is zero; at exactly 7 days, or with any non-zero
\* total_payout_value, it is false; a missing total_payout_value counts as zero.
C16_PendingIffYoungAndUnpaid ==
    Finished("is_pending") =>
        LET age == now - comment.created
            limit == PendingDays * SecondsPerDay
            missing == "total_payout_value" \notin DOMAIN comment
            total == IF missing THEN 0 ELSE comment.total_payout_value
        IN  /\ result.status = "returned"
            /\ result.value <=> (age < limit /\ total = 0)
            /\ age = limit => ~result.value
            /\ total # 0 => ~result.value
            /\ (missing /\ age < limit) => result.value

\* C16 witness: a record without total_payout_value, one second short of 7 days old,
\* was found pending.
C16_Witness ==
    /\ Finished("is_pending")
    /\ "total_payout_value" \notin DOMAIN comment
    /\ now - comment.created = PendingDays * SecondsPerDay - 1
    /\ result = Returned(TRUE)

\* C17: for a pending record with a median price, get_author_rewards computes
\* author_tokens = total_reward - 0.25 * total_reward, adds the unclaimed curation
\* reward (converted by the median price) only when hardfork >= 20, then subtracts
\* benefactor_tokens = author_tokens * (sum of beneficiary weights) / 10000; the total
\* it returns is that remainder, the liquid payout is total * percent_hive_dollars /
\* 20000, and so liquid payout <= total whenever percent_hive_dollars is in 0..20000.
C17_AuthorTokens ==
    (/\ Finished("get_author_rewards")
     /\ result.status = "returned"
     /\ \A i \in DOMAIN frame.pending : frame.pending[i].is
     /\ hive.median_hist # None) =>
        LET total_reward == reward(comment).amount
            unclaimed == get_curation_rewards(comment, hive, now, FALSE, None).unclaimed_rewards
            author_tokens == total_reward - (total_reward * 25) \div 100
            with_unclaimed == IF hive.hardfork >= 20
                              THEN author_tokens + PriceMul(hive.median_hist, unclaimed).amount
                              ELSE author_tokens
            benefactor_tokens ==
                (with_unclaimed * SumWeights(comment.beneficiaries)) \div 10000
            total == with_unclaimed - benefactor_tokens
        IN  /\ result.value.total_payout_HBD = Amount(total, "HBD")
            /\ result.value.payout_HBD
                   = Amount((total * comment.percent_hive_dollars) \div 20000, "HBD")
            /\ comment.percent_hive_dollars \in 0..20000 =>
                   result.value.payout_HBD.amount <= result.value.total_payout_HBD.amount

\* C18: after get_curation_rewards, 0 <= unclaimed_rewards <= max_rewards, for every
\* vote list, also with negative vote weights and with a pre-aggregated
\* total_vote_weight that differs from the sum of the vote weights.
C18_UnclaimedWithinMax ==
    (Finished("get_curation_rewards") /\ result.status = "returned") =>
        /\ 0 <= result.value.unclaimed_rewards.amount
        /\ result.value.unclaimed_rewards.amount <= C2_MaxRewards.amount

\* C19: for a pending record, get_rewards returns 0 <= author_payout <= total_payout,
\* hence curator_payout >= 0, for every pending_payout_value, curator_payout_value,
\* vote list, beneficiary weights summing to at most 10000, hardfork and median price.
C19_AuthorWithinTotal ==
    (/\ Finished("get_rewards")
     /\ result.status = "returned"
     /\ \A i \in DOMAIN frame.pending : frame.pending[i].is
     /\ SumWeights(comment.beneficiaries) <= 10000) =>
        /\ 0 <= result.value.author_payout.amount
        /\ result.value.author_payout.amount <= result.value.total_payout.amount
        /\ result.value.curator_payout.amount >= 0

====
